---- MODULE Spec2Model ----
(***************************************************************************)
(* LambdaEdge fault-event dashboard (src/LambdaDashboard.py).              *)
(*                                                                         *)
(* The script is re-executed top to bottom on every rerun.  Its sections   *)
(* are modelled one specification each, so that each can take its inputs   *)
(* from a set wide enough for the section's corner cases:                  *)
(*   SpecFetch    fetch_fault_data and safe_cast (record normalisation)    *)
(*   SpecFilter   the load and the time-window filter                      *)
(*   SpecTrend    device selection, summary metrics and the chart section  *)
(*   SpecMetrics  the data-completeness metric on windows of many records  *)
(*   SpecInfer    the inference expander and get_prediction                *)
(*                                                                         *)
(* Python values are tagged records of one shape.  Numbers that may be     *)
(* fractional (Decimal, float) are carried in tenths in field n; an int is *)
(* carried as itself in n; a str is the sequence of its characters.        *)
(***************************************************************************)
EXTENDS Integers, Sequences, FiniteSets, TLC

VARIABLES
    items,           \* contents of the FaultEventLog table, in scan order
    scanned,         \* response['Items'] of the last table.scan()
    scan_ok,         \* whether the last table.scan() returned
    outcomes,        \* per scanned item: the record built, or dropped
    data,            \* the list returned by fetch_fault_data
    now,             \* datetime.now(timezone.utc) of the last rerun, epoch seconds
    time_window,     \* the sidebar slider, minutes
    stage,           \* how far the last rerun got before st.stop() or its end
    df,              \* the records inside the time window, in scan order
    device_choice,   \* what the user picked in the sidebar device selectbox
    chart_selection, \* the sidebar radio
    selected_device, \* the sidebar selectbox's value
    filtered_df,     \* df restricted to selected_device
    chart,           \* what section 5 displayed
    metrics,         \* what the summary metrics section displayed
    infer_choice,    \* what the user picked in the "Select Device" selectbox
    call,            \* the arguments of the last get_prediction call
    net,             \* what the network did with that call's request
    result           \* what that call returned, or the exception that escaped

fetchVars == <<items, scanned, scan_ok, outcomes, data>>
filterVars == <<now, time_window>>
trendVars == <<device_choice, chart_selection, selected_device, filtered_df, chart,
               metrics>>
inferVars == <<infer_choice, call, net, result>>

vars == <<items, scanned, scan_ok, outcomes, data, now, time_window, stage, df,
          device_choice, chart_selection, selected_device, filtered_df, chart,
          metrics, infer_choice, call, net, result>>

----------------------------------------------------------------------------
(* Python values *)

None    == [kind |-> "None",    n |-> 0, chars |-> <<>>]
Absent  == [kind |-> "absent",  n |-> 0, chars |-> <<>>]  \* key not in the mapping
Raised  == [kind |-> "raise",   n |-> 0, chars |-> <<>>]  \* the expression raised
PyDec(t) == [kind |-> "Decimal", n |-> t, chars |-> <<>>]  \* Decimal, t tenths
PyFlt(t) == [kind |-> "float",   n |-> t, chars |-> <<>>]  \* float, t tenths
PyInt(i) == [kind |-> "int",     n |-> i, chars |-> <<>>]
PyStr(s) == [kind |-> "str",     n |-> 0, chars |-> s]
\* a tz-aware pandas Timestamp, t seconds after the epoch
PyDatetime(t) == [kind |-> "datetime", n |-> t, chars |-> <<>>]

Digits == {"0", "1", "2", "3", "4", "5", "6", "7", "8", "9"}

DigitVal(c) ==
    CASE c = "0" -> 0 [] c = "1" -> 1 [] c = "2" -> 2 [] c = "3" -> 3
      [] c = "4" -> 4 [] c = "5" -> 5 [] c = "6" -> 6 [] c = "7" -> 7
      [] c = "8" -> 8 [] c = "9" -> 9

AllDigits(s) == Len(s) > 0 /\ \A i \in 1..Len(s) : s[i] \in Digits

RECURSIVE ParseNat(_)
ParseNat(s) ==
    IF Len(s) = 0 THEN 0
    ELSE 10 * ParseNat(SubSeq(s, 1, Len(s) - 1)) + DigitVal(s[Len(s)])

\* str.isdigit()
isdigit(s) == AllDigits(s)

\* bool(val): the truth value Python's `or` tests
Truthy(val) ==
    CASE val.kind = "None" -> FALSE
      [] val.kind = "str"  -> Len(val.chars) > 0
      [] val.kind \in {"Decimal", "float", "int"} -> val.n # 0
      [] OTHER -> TRUE

\* a or b
py_or(a, b) == IF Truthy(a) THEN a ELSE b

\* truncation toward zero of a number held in tenths
Trunc10(t) == IF t >= 0 THEN t \div 10 ELSE -((-t) \div 10)

\* position of the first "." in s, or 0
DotAt(s) ==
    IF \E i \in 1..Len(s) : s[i] = "."
    THEN CHOOSE i \in 1..Len(s) : s[i] = "." /\ \A j \in 1..(i - 1) : s[j] # "."
    ELSE 0

Unsigned(s) == IF Len(s) > 0 /\ s[1] = "-" THEN SubSeq(s, 2, Len(s)) ELSE s
Sign(s)     == IF Len(s) > 0 /\ s[1] = "-" THEN -1 ELSE 1

\* int(val)
py_int(val) ==
    CASE val.kind = "int"     -> val
      [] val.kind = "float"   -> PyInt(Trunc10(val.n))
      [] val.kind = "Decimal" -> PyInt(Trunc10(val.n))
      [] val.kind = "str"     ->
            IF AllDigits(Unsigned(val.chars))
            THEN PyInt(Sign(val.chars) * ParseNat(Unsigned(val.chars)))
            ELSE Raised                                   \* ValueError
      [] OTHER -> Raised                                  \* TypeError

\* float(val); the strings of the model carry at most one fractional digit
py_float(val) ==
    CASE val.kind = "int"     -> PyFlt(10 * val.n)
      [] val.kind = "float"   -> val
      [] val.kind = "Decimal" -> PyFlt(val.n)
      [] val.kind = "str"     ->
            LET u == Unsigned(val.chars)
                d == DotAt(u)
                whole == IF d = 0 THEN u ELSE SubSeq(u, 1, d - 1)
                frac  == IF d = 0 THEN <<>> ELSE SubSeq(u, d + 1, Len(u))
            IN  IF /\ Len(whole) + Len(frac) > 0
                   /\ \A i \in 1..Len(whole) : whole[i] \in Digits
                   /\ Len(frac) <= 1
                   /\ \A i \in 1..Len(frac) : frac[i] \in Digits
                THEN PyFlt(Sign(val.chars) * (10 * ParseNat(whole) + ParseNat(frac)))
                ELSE Raised                               \* ValueError
      [] OTHER -> Raised                                  \* TypeError

safe_cast(val) ==
    IF val.kind = "Decimal" THEN PyFlt(val.n)
    ELSE IF val.kind = "str" /\ isdigit(val.chars) THEN PyInt(ParseNat(val.chars))
    ELSE val

----------------------------------------------------------------------------
(* Scanned items *)

Fields == {"device_id", "timestamp", "temperature", "vibration", "status"}
Required == {"timestamp", "temperature", "vibration"}

EmptyMap == [f \in Fields |-> Absent]

\* mapping.get(key) and mapping.get(key, default)
get(m, f) == IF m[f] = Absent THEN None ELSE m[f]
get_default(m, f, d) == IF m[f] = Absent THEN d ELSE m[f]

UNKNOWN == PyStr(<<"U", "N", "K", "N", "O", "W", "N">>)
FAULT   == PyStr(<<"F", "A", "U", "L", "T">>)
OK      == PyStr(<<"O", "K">>)

NoRecord == [device_id |-> Absent, timestamp |-> Absent, temperature |-> Absent,
             vibration |-> Absent, status |-> Absent]

\* payload = item.get("payload", {}): the mapping, if the value is one
payload_of(item) == IF item.payload_kind = "absent" THEN EmptyMap ELSE item.payload

\* the dict built inside records.append(...), field by field
build_record(item) ==
    LET payload == payload_of(item)
        top == item.top
    IN  [device_id   |-> py_or(get(payload, "device_id"), get(top, "device_id")),
         timestamp   |-> py_int(safe_cast(py_or(get(payload, "timestamp"),
                                                get(top, "timestamp")))),
         temperature |-> py_float(safe_cast(py_or(get(payload, "temperature"),
                                                  get(top, "temperature")))),
         vibration   |-> py_float(safe_cast(py_or(get(payload, "vibration"),
                                                  get(top, "vibration")))),
         status      |-> py_or(get(payload, "status"),
                               get_default(top, "status", UNKNOWN))]

\* one iteration of the for loop: the record appended, or the bare except
normalize_item(item) ==
    IF item.payload_kind = "other"
    THEN [ok |-> FALSE, rec |-> NoRecord]      \* payload.get: AttributeError
    ELSE LET r == build_record(item)
         IN  IF \E f \in Required : r[f] = Raised
             THEN [ok |-> FALSE, rec |-> NoRecord]
             ELSE [ok |-> TRUE, rec |-> r]

RECURSIVE Emitted(_)
Emitted(outs) ==
    IF Len(outs) = 0 THEN <<>>
    ELSE IF outs[Len(outs)].ok
         THEN Append(Emitted(SubSeq(outs, 1, Len(outs) - 1)), outs[Len(outs)].rec)
         ELSE Emitted(SubSeq(outs, 1, Len(outs) - 1))

loop_outcomes(its) == [i \in 1..Len(its) |-> normalize_item(its[i])]

\* fetch_fault_data(): the records, or [] when the scan raised
fetch_fault_data(its, ok) == IF ok THEN Emitted(loop_outcomes(its)) ELSE <<>>

----------------------------------------------------------------------------
(* Data frames: a frame is the sequence of its rows, in frame order *)

DeviceA == PyStr(<<"A">>)
DeviceB == PyStr(<<"B">>)

Row(d, ts, temp, vib, st) ==
    [device_id |-> d, timestamp |-> PyDatetime(ts), temperature |-> PyFlt(temp),
     vibration |-> PyFlt(vib), status |-> st]

RECURSIVE SeqsUpTo(_, _)
SeqsUpTo(S, k) ==
    IF k = 0 THEN {<<>>}
    ELSE LET shorter == SeqsUpTo(S, k - 1)
         IN  shorter \cup {Append(q, x) : q \in {r \in shorter : Len(r) = k - 1},
                                           x \in S}

\* Series.unique(): the distinct values, in order of first appearance
RECURSIVE unique(_)
unique(col) ==
    IF Len(col) = 0 THEN <<>>
    ELSE LET front == unique(SubSeq(col, 1, Len(col) - 1))
         IN  IF \E i \in 1..Len(front) : front[i] = col[Len(col)]
             THEN front
             ELSE Append(front, col[Len(col)])

device_ids(frame) == [i \in 1..Len(frame) |-> frame[i].device_id]

\* st.selectbox(label, options): the user's pick while it is an option, the
\* first option otherwise, None when there is no option
selectbox(options, choice) ==
    IF \E i \in 1..Len(options) : options[i] = choice THEN choice
    ELSE IF Len(options) > 0 THEN options[1]
    ELSE None

\* frame[frame["device_id"] == d]
RowsOf(frame, d) == SelectSeq(frame, LAMBDA r : r.device_id = d)

\* .iloc[-1]
iloc_last(frame) == frame[Len(frame)]

\* frame[frame["status"] == st]
RowsWithStatus(frame, st) == SelectSeq(frame, LAMBDA r : r.status = st)

----------------------------------------------------------------------------
(* Load + Filter, lines 71-79 *)

MinWindow == 5         \* st.sidebar.slider("Time window (minutes)", 5, 240, 60)
MaxWindow == 240
DefaultWindow == 60
RefreshSeconds == 60   \* st_autorefresh(interval=60 * 1000)
Now0 == 20000          \* the clock at page load, epoch seconds

\* pd.to_datetime(df['timestamp'], unit='s', utc=True), row by row
to_datetime(frame) ==
    [i \in 1..Len(frame) |->
        [frame[i] EXCEPT !.timestamp = PyDatetime(frame[i].timestamp.n)]]

\* datetime.now(timezone.utc) - timedelta(minutes=time_window)
cutoff_time(t, w) == PyDatetime(t - 60 * w)

\* a strict comparison, where the code compares with >=
ts_gt(row, cutoff) == row.timestamp.n > cutoff.n

\* row['timestamp'] >= cutoff
ts_ge(row, cutoff) == row.timestamp.n >= cutoff.n

\* df[df['timestamp'] >= cutoff_time]
time_window_filter(frame, t, w) ==
    SelectSeq(frame, LAMBDA r : ts_ge(r, cutoff_time(t, w)))

----------------------------------------------------------------------------
(* Device selection and section 5, lines 82-91 and 162-173 *)

ChartOptions == {"Temperature", "Vibration", "Fault Trend"}

\* chart_selection.lower(), for the two column charts
lower(c) == IF c = "Temperature" THEN "temperature" ELSE "vibration"

BucketSeconds == 900    \* '15min'

\* a floor to the minute, where the code floors to the quarter hour
floor_1min(t) == PyDatetime((t.n \div 60) * 60)

\* Timestamp.floor('15min'): the start of the enclosing quarter hour
floor_15min(t) == PyDatetime((t.n \div BucketSeconds) * BucketSeconds)

\* the distinct values of a set of timestamps, ascending
RECURSIVE Ascending(_)
Ascending(S) ==
    IF S = {} THEN <<>>
    ELSE LET m == CHOOSE x \in S : \A y \in S : x.n <= y.n
         IN  <<m>> \o Ascending(S \ {m})

\* df_faults.groupby('bucket').size().reset_index(name='Fault Count')
groupby_size(buckets) ==
    LET keys == Ascending({buckets[i] : i \in 1..Len(buckets)})
    IN  [k \in 1..Len(keys) |->
            [x |-> keys[k],
             y |-> Cardinality({i \in 1..Len(buckets) : buckets[i] = keys[k]})]]

\* the FAULT rows the trend is built from
df_faults_of(frame) == RowsWithStatus(frame, FAULT)

\* the rows of frame ordered by timestamp, ties in frame order
RECURSIVE sort_by_timestamp(_)
sort_by_timestamp(frame) ==
    IF Len(frame) = 0 THEN <<>>
    ELSE LET front == sort_by_timestamp(SubSeq(frame, 1, Len(frame) - 1))
             last  == frame[Len(frame)]
             k == Cardinality({i \in 1..Len(front) :
                                 front[i].timestamp.n <= last.timestamp.n})
         IN  SubSeq(front, 1, k) \o <<last>> \o SubSeq(front, k + 1, Len(front))

NoChart == [kind |-> "none", column |-> "", rows |-> <<>>]

\* section 5: the fault trend, its "No FAULT events" notice, or a column chart
chart_over_time(frame, selection) ==
    IF selection = "Fault Trend"
    THEN LET df_faults == df_faults_of(frame)
         IN  IF Len(df_faults) > 0
             THEN [kind |-> "line_chart", column |-> "Fault Count",
                   rows |-> groupby_size(
                       [i \in 1..Len(df_faults) |->
                           floor_15min(df_faults[i].timestamp)])]
             ELSE [kind |-> "info", column |-> "", rows |-> <<>>]
    ELSE LET time_series == sort_by_timestamp(frame)
         IN  [kind |-> "line_chart", column |-> lower(selection),
              rows |-> [i \in 1..Len(time_series) |->
                          [x |-> time_series[i].timestamp,
                           y |-> time_series[i][lower(selection)].n]]]

----------------------------------------------------------------------------
(* IEEE-754 binary64 arithmetic, for the completeness rate of line 107.     *)
(* A natural number is the sequence of its base-8192 limbs, most            *)
(* significant first; a double is m * 2^e with m such a number of at most   *)
(* 53 bits.                                                                  *)

LimbBits == 13
LimbBase == 8192
MantissaBits == 53

RECURSIVE Strip(_)
Strip(X) == IF Len(X) > 0 /\ X[1] = 0 THEN Strip(Tail(X)) ELSE X

RECURSIVE BitsOf(_)
BitsOf(v) == IF v = 0 THEN 0 ELSE 1 + BitsOf(v \div 2)

BitLen(X) ==
    LET Y == Strip(X)
    IN  IF Len(Y) = 0 THEN 0 ELSE LimbBits * (Len(Y) - 1) + BitsOf(Y[1])

\* X * m + carry, for m and carry below LimbBase
RECURSIVE MulSmall(_, _, _)
MulSmall(X, m, carry) ==
    IF Len(X) = 0 THEN (IF carry = 0 THEN <<>> ELSE <<carry>>)
    ELSE LET v == X[Len(X)] * m + carry
         IN  Append(MulSmall(SubSeq(X, 1, Len(X) - 1), m, v \div LimbBase),
                    v % LimbBase)

\* quotient and remainder of (rem * LimbBase^Len(X) + X) by d, d below 2^17
RECURSIVE DivSmall(_, _, _)
DivSmall(X, d, rem) ==
    IF Len(X) = 0 THEN [q |-> <<>>, r |-> rem]
    ELSE LET v == rem * LimbBase + X[1]
             rest == DivSmall(Tail(X), d, v % d)
         IN  [q |-> <<v \div d>> \o rest.q, r |-> rest.r]

\* floor(X / 2^t), and whether a nonzero bit was shifted out
ShiftRight(X, t) ==
    LET drop == t \div LimbBits
        kept == SubSeq(X, 1, Len(X) - drop)
        lost == SubSeq(X, Len(X) - drop + 1, Len(X))
        d == DivSmall(kept, 2 ^ (t % LimbBits), 0)
    IN  [q |-> d.q,
         sticky |-> d.r # 0 \/ \E i \in 1..Len(lost) : lost[i] # 0]

\* the limbs of a number below LimbBase^2, and back
ToInt(X) ==
    LET Y == Strip(X)
    IN  IF Len(Y) = 0 THEN 0
        ELSE IF Len(Y) = 1 THEN Y[1]
        ELSE Y[1] * LimbBase + Y[2]

\* X / 2^s rounded to the nearest integer, ties to even; sticky tells that
\* the exact value lies strictly above X
RoundShift(X, s, sticky) ==
    IF s = 0 THEN Strip(X)
    ELSE LET y == ShiftRight(X, s - 1)
             h == DivSmall(y.q, 2, 0)
             odd == Len(h.q) > 0 /\ h.q[Len(h.q)] % 2 = 1
             up == h.r = 1 /\ (y.sticky \/ sticky \/ odd)
         IN  Strip(IF up THEN MulSmall(h.q, 1, 1) ELSE h.q)

\* n / w for two int: the double nearest to the quotient
fl_div(n, w) ==
    IF n = 0 THEN [m |-> <<>>, e |-> 0]
    ELSE LET d == DivSmall(<<n, 0, 0, 0, 0, 0>>, w, 0)
             s == BitLen(d.q) - MantissaBits
         IN  [m |-> RoundShift(d.q, s, d.r # 0), e |-> s - 5 * LimbBits]

\* x * k for a double x and a small int k: the double nearest to the product
fl_mul(x, k) ==
    LET P == MulSmall(x.m, k, 0)
        s == IF BitLen(P) > MantissaBits THEN BitLen(P) - MantissaBits ELSE 0
    IN  [m |-> RoundShift(P, s, FALSE), e |-> x.e + s]

\* round(x, 1) for a double x with e < 0: the tenths of the decimal nearest
\* to x's exact value, ties to even
round_1(x) == ToInt(RoundShift(MulSmall(x.m, 10, 0), -x.e, FALSE))

\* round((actual_count / expected_count) * 100, 1), in tenths of a percent
completion_rate_of(actual_count, expected_count) ==
    PyFlt(round_1(fl_mul(fl_div(actual_count, expected_count), 100)))

WARNING == PyStr(<<"W", "A", "R", "N", "I", "N", "G">>)
OFFLINE == PyStr(<<"O", "F", "F", "L", "I", "N", "E">>)

status_focus == {OK, WARNING, FAULT}

NoMetrics == [actual_count |-> 0, expected_count |-> 0,
              status_counts |-> [st \in status_focus |-> 0],
              completion_rate |-> None]

\* the summary metrics of lines 96-109, for the device's window and the slider
summary_metrics(frame, w) ==
    [actual_count |-> Len(frame),
     expected_count |-> w,
     status_counts |-> [st \in status_focus |-> Len(RowsWithStatus(frame, st))],
     completion_rate |-> completion_rate_of(Len(frame), w)]

----------------------------------------------------------------------------
(* get_prediction and the inference expander *)

PREDICTION == <<"p", "r", "e", "d", "i", "c", "t", "i", "o", "n">>

\* a parsed JSON body; members holds an object's <<key, value>> pairs, elems
\* an array's elements, text a string's characters, num a number or boolean
Json(type, members, elems, text, num) ==
    [type |-> type, members |-> members, elems |-> elems, text |-> text,
     num |-> num]

JObject(members) == Json("object", members, <<>>, <<>>, 0)
JArray(elems)    == Json("array", {}, elems, <<>>, 0)
JString(text)    == Json("string", {}, <<>>, text, 0)
JNumber(num)     == Json("number", {}, <<>>, <<>>, num)
JBool(b)         == Json("boolean", {}, <<>>, <<>>, IF b THEN 1 ELSE 0)
JNull            == Json("null", {}, <<>>, <<>>, 0)
NoBody           == Json("none", {}, <<>>, <<>>, 0)

\* needle in hay, for two str
IsSubstring(needle, hay) ==
    \E i \in 0..(Len(hay) - Len(needle)) :
        \A j \in 1..Len(needle) : hay[i + j] = needle[j]

\* the classes a raised exception is an instance of
Exc(name, bases) == [name |-> name, bases |-> bases]
NoExc == Exc("", {})

ConnectionErrorExc == Exc("ConnectionError", {"RequestException"})
TimeoutExc         == Exc("Timeout", {"RequestException"})
HTTPErrorExc       == Exc("HTTPError", {"RequestException"})
TypeErrorExc       == Exc("TypeError", {"TypeError"})
\* requests.exceptions.JSONDecodeError, and the json module's own that
\* response.json() lets through in releases of requests before 2.27
RequestsJSONDecodeError == Exc("JSONDecodeError", {"RequestException", "ValueError"})
PlainJSONDecodeError    == Exc("JSONDecodeError", {"ValueError"})

\* requests.post(endpoint, json=payload)
post(n) == IF n.transport = "ok" THEN NoExc ELSE n.transport_exc

\* response.raise_for_status()
raise_for_status(n) ==
    IF n.status >= 400 /\ n.status < 600 THEN HTTPErrorExc ELSE NoExc

\* response.json()
response_json(n) == IF n.body = NoBody THEN n.decode_exc ELSE NoExc

\* "prediction" in result
in_result(body) ==
    CASE body.type = "object" ->
            [exc |-> NoExc, val |-> \E m \in body.members : m[1] = PREDICTION]
      [] body.type = "array" ->
            [exc |-> NoExc,
             val |-> \E i \in 1..Len(body.elems) : body.elems[i] = PREDICTION]
      [] body.type = "string" ->
            [exc |-> NoExc, val |-> IsSubstring(PREDICTION, body.text)]
      [] OTHER -> [exc |-> TypeErrorExc, val |-> FALSE]

Returned(body)       == [kind |-> "body", value |-> body, error |-> "",
                         e |-> NoExc, has_raw |-> FALSE, raw |-> NoBody]
ErrorResult(text, e) == [kind |-> "error", value |-> NoBody, error |-> text,
                         e |-> e, has_raw |-> FALSE, raw |-> NoBody]
MissingKey(body)     == [kind |-> "error", value |-> NoBody,
                         error |-> "Missing 'prediction' key in Lambda response",
                         e |-> NoExc, has_raw |-> TRUE, raw |-> body]
Escaped(e)           == [kind |-> "raise", value |-> NoBody, error |-> "",
                         e |-> e, has_raw |-> FALSE, raw |-> NoBody]
NoResult             == [kind |-> "none", value |-> NoBody, error |-> "",
                         e |-> NoExc, has_raw |-> FALSE, raw |-> NoBody]

\* the except clauses, tried in source order
handle(e) ==
    IF "RequestException" \in e.bases THEN ErrorResult("HTTP error: ", e)
    ELSE IF "ValueError" \in e.bases THEN ErrorResult("JSON decoding failed: ", e)
    ELSE Escaped(e)

\* the try block, statement by statement
get_prediction(device_id, temp, vib, n) ==
    IF post(n) # NoExc THEN handle(post(n))
    ELSE IF raise_for_status(n) # NoExc THEN handle(raise_for_status(n))
    ELSE IF response_json(n) # NoExc THEN handle(response_json(n))
    ELSE IF in_result(n.body).exc # NoExc THEN handle(in_result(n.body).exc)
    ELSE IF in_result(n.body).val THEN Returned(n.body)
    ELSE MissingKey(n.body)

\* what the endpoint and the network can do with one request
Net(transport, transport_exc, status, body, decode_exc) ==
    [transport |-> transport, transport_exc |-> transport_exc,
     status |-> status, body |-> body, decode_exc |-> decode_exc]

NoNet == Net("none", NoExc, 0, NoBody, NoExc)

GoodBody ==
    JObject({<<PREDICTION, PyStr(<<"L", "o", "w">>)>>,
             <<<<"r", "i", "s", "k", "_", "s", "c", "o", "r", "e">>, PyInt(12)>>,
             <<<<"c", "o", "n", "f", "i", "d", "e", "n", "c", "e">>, PyFlt(9)>>,
             <<<<"f", "a", "i", "l", "u", "r", "e", "_", "m", "o", "d", "e">>,
               PyStr(<<"n", "o", "n", "e">>)>>})

JsonBodies ==
    {GoodBody,
     JObject({<<PREDICTION, PyStr(<<"H", "i", "g", "h">>)>>}),
     JObject({<<<<"f", "o", "o">>, PyStr(<<"b", "a", "r">>)>>}),
     JObject({}),
     JArray(<<>>), JArray(<<<<"f", "o", "o">>>>), JArray(<<PREDICTION>>),
     JString(<<>>), JString(<<"f", "o", "o">>), JString(PREDICTION),
     JString(<<"a", " ">> \o PREDICTION),
     JNumber(0), JNumber(42), JBool(TRUE), JBool(FALSE), JNull}

NetOutcomes ==
    {Net("failed", e, 0, NoBody, NoExc) : e \in {ConnectionErrorExc, TimeoutExc}}
    \cup {Net("ok", NoExc, st, NoBody, RequestsJSONDecodeError) : st \in {404, 500}}
    \cup {Net("ok", NoExc, 200, b, NoExc) : b \in JsonBodies}
    \cup {Net("ok", NoExc, st, NoBody, e) :
            st \in {200, 204}, e \in {RequestsJSONDecodeError, PlainJSONDecodeError}}

----------------------------------------------------------------------------
(* SpecInfer: the "Run Predictive Inference" expander, run on every rerun *)

MaxRows == 2

InferRows ==
    {Row(d, ts, tv[1], tv[2], OK) :
        d \in {DeviceA, DeviceB}, ts \in {1000, 1800},
        tv \in {<<215, 1>>, <<550, 2>>}}

NoCall == [device_id |-> None, temp |-> None, vib |-> None]

FilterIdle ==
    /\ now = Now0
    /\ time_window = DefaultWindow

TrendIdle ==
    /\ device_choice = None
    /\ chart_selection = "Temperature"
    /\ selected_device = None
    /\ filtered_df = <<>>
    /\ chart = NoChart
    /\ metrics = NoMetrics

InferIdle ==
    /\ infer_choice = None
    /\ call = NoCall
    /\ net = NoNet
    /\ result = NoResult

InitInfer ==
    /\ items = <<>>
    /\ scanned = <<>>
    /\ scan_ok = TRUE
    /\ outcomes = <<>>
    /\ data = <<>>
    /\ FilterIdle
    /\ stage = "rendered"
    /\ df \in SeqsUpTo(InferRows, MaxRows) \ {<<>>}
    /\ TrendIdle
    /\ InferIdle

\* lines 206-214 with the selectbox holding choice and the network doing n
RunInference(choice, n) ==
    LET device == selectbox(unique(device_ids(df)), choice)
        selected_data == iloc_last(RowsOf(df, device))
    IN  /\ infer_choice' = choice
        /\ call' = [device_id |-> device,
                    temp |-> selected_data.temperature,
                    vib |-> selected_data.vibration]
        /\ net' = n
        /\ result' = get_prediction(device, selected_data.temperature,
                                    selected_data.vibration, n)
        /\ UNCHANGED <<fetchVars, filterVars, stage, df, trendVars>>

\* the 60 s timer reruns the script; the widget keeps its value
AutoRefreshInfer == \E n \in NetOutcomes : RunInference(infer_choice, n)

\* the user picks a device in the expander's selectbox, which reruns the script
SelectInferDevice(d) == \E n \in NetOutcomes : RunInference(d, n)

NextInfer ==
    \/ AutoRefreshInfer
    \/ \E d \in {DeviceA, DeviceB} : SelectInferDevice(d)

SpecInfer == InitInfer /\ [][NextInfer]_vars

----------------------------------------------------------------------------
(* SpecFetch: producers write items to the table; the dashboard scans it *)

MaxScan == 2

GoodPayload ==
    [device_id |-> PyStr(<<"A">>), timestamp |-> PyDec(10000),
     temperature |-> PyDec(215), vibration |-> PyDec(1), status |-> OK]

TopGood ==
    [device_id |-> PyStr(<<"B">>), timestamp |-> PyDec(18000),
     temperature |-> PyDec(550), vibration |-> PyDec(2), status |-> FAULT]

NumProbe ==
    {None, PyDec(0), PyDec(-50), PyDec(15), PyInt(0), PyInt(7), PyFlt(-25),
     PyStr(<<>>), PyStr(<<"1", "2">>), PyStr(<<"-", "5">>),
     PyStr(<<"1", ".", "5">>), PyStr(<<"a", "b">>)}

TextProbe == {None, PyStr(<<>>), PyStr(<<"C">>)}

Probe(f) == IF f \in Required THEN NumProbe ELSE TextProbe

\* an item whose field f is pv in the payload and tv at the top level
ProbeItem(f, pv, tv) ==
    [payload_kind |-> "map",
     payload |-> [GoodPayload EXCEPT ![f] = pv],
     top |-> [EmptyMap EXCEPT ![f] = tv]]

FetchItems ==
    {ProbeItem(fpt[1], fpt[2], fpt[3]) :
        fpt \in {x \in Fields \X (NumProbe \cup TextProbe \cup {Absent})
                              \X (NumProbe \cup TextProbe \cup {Absent}) :
                    /\ x[2] \in Probe(x[1]) \cup {Absent}
                    /\ IF x[2] = Absent
                       THEN x[3] \in Probe(x[1]) \cup {Absent}
                       ELSE x[3] \in {Absent, TopGood[x[1]]}}}
    \cup {[payload_kind |-> "absent", payload |-> EmptyMap, top |-> TopGood],
          [payload_kind |-> "other", payload |-> EmptyMap, top |-> TopGood]}

InitFetch ==
    /\ items = <<>>
    /\ scanned = <<>>
    /\ scan_ok = TRUE
    /\ outcomes = <<>>
    /\ data = <<>>
    /\ FilterIdle
    /\ stage = "init"
    /\ df = <<>>
    /\ TrendIdle
    /\ InferIdle

\* a producer writes one more item to FaultEventLog
PutItem(it) ==
    /\ Len(items) < MaxScan
    /\ items' = Append(items, it)
    /\ UNCHANGED <<scanned, scan_ok, outcomes, data, filterVars, stage, df,
                   trendVars, inferVars>>

\* data = fetch_fault_data(), the scan returning the table's items
Fetch ==
    /\ scanned' = items
    /\ scan_ok' = TRUE
    /\ outcomes' = loop_outcomes(items)
    /\ data' = fetch_fault_data(items, TRUE)
    /\ UNCHANGED <<items, filterVars, stage, df, trendVars, inferVars>>

\* data = fetch_fault_data(), table.scan() raising
FetchFails ==
    /\ scanned' = <<>>
    /\ scan_ok' = FALSE
    /\ outcomes' = <<>>
    /\ data' = fetch_fault_data(items, FALSE)
    /\ UNCHANGED <<items, filterVars, stage, df, trendVars, inferVars>>

NextFetch ==
    \/ \E it \in FetchItems : PutItem(it)
    \/ Fetch
    \/ FetchFails

SpecFetch == InitFetch /\ [][NextFetch]_vars

----------------------------------------------------------------------------
(* Properties of fetch_fault_data, stated over the last completed scan *)

\* what field f of a record is when it is derived from the value v
Derived(f, v) ==
    CASE f = "timestamp" -> py_int(safe_cast(v))
      [] f \in {"temperature", "vibration"} -> py_float(safe_cast(v))
      [] OTHER -> v

\* the value the normaliser is specified to use: the payload's when the
\* payload contains the field, the top-level one otherwise
Resolved(item, f) ==
    IF payload_of(item)[f] # Absent THEN payload_of(item)[f] ELSE item.top[f]

ValidItem(item) ==
    \A f \in Required :
        /\ Resolved(item, f) # Absent
        /\ Derived(f, Resolved(item, f)) # Raised

\* C3: for an item whose payload is a mapping, a field the payload contains
\* is derived from the payload's value, whatever it is (0, 0.0 and "" too),
\* and the top-level value of that field is ignored
C3_PayloadTakesPrecedence ==
    \A i \in 1..Len(scanned) : \A f \in Fields :
        (/\ scanned[i].payload_kind = "map"
         /\ scanned[i].payload[f] # Absent
         /\ outcomes[i].ok)
        => outcomes[i].rec[f] = Derived(f, scanned[i].payload[f])

\* C4: an item that lacks timestamp, temperature or vibration in both places,
\* or whose value for one of them cannot be cast, yields no record, and every
\* other item of the same scan yields exactly one record
C4_OnlyInvalidItemsDropped ==
    /\ \A i \in 1..Len(scanned) :
          scanned[i].payload_kind # "other"
          => (outcomes[i].ok <=> ValidItem(scanned[i]))
    /\ scan_ok =>
          Len(data) = Cardinality({i \in 1..Len(scanned) : outcomes[i].ok})

\* C5: every emitted record's timestamp is a non-negative integer
C5_TimestampNonNegative ==
    \A i \in 1..Len(data) :
        data[i].timestamp.kind = "int" /\ data[i].timestamp.n >= 0

\* C6: no partial record: device_id is a non-null string, the three numeric
\* fields are set and status is non-null in every emitted record
C6_NoPartialRecord ==
    \A i \in 1..Len(data) :
        /\ data[i].device_id.kind = "str"
        /\ data[i].timestamp.kind = "int"
        /\ data[i].temperature.kind = "float"
        /\ data[i].vibration.kind = "float"
        /\ data[i].status.kind \notin {"None", "absent"}

----------------------------------------------------------------------------
(* Properties of the inference section, stated over the last call *)

Is2xx(n) == n.transport = "ok" /\ n.status >= 200 /\ n.status < 300

HasPredictionKey(body) ==
    body.type = "object" /\ \E m \in body.members : m[1] = PREDICTION

\* C1: a 2xx response whose body does not parse as JSON, the decode exception
\* being both a RequestException and a ValueError, yields an error result
\* tagged "JSON decoding failed" and not "HTTP error"
C1_DecodeFailureTaggedJson ==
    (/\ Is2xx(net)
     /\ net.body = NoBody
     /\ net.decode_exc.bases = {"RequestException", "ValueError"})
    => /\ result.kind = "error"
       /\ result.error = "JSON decoding failed: "

\* C2: for a 2xx response whose body parses as JSON of any type, the body is
\* returned unchanged when it has a "prediction" key, an error result tagged
\* "Missing 'prediction' key" carrying the body as raw is returned otherwise,
\* and no exception escapes
C2_ParsedBodyClassified ==
    (Is2xx(net) /\ net.body # NoBody)
    => /\ result.kind # "raise"
       /\ HasPredictionKey(net.body) => result = Returned(net.body)
       /\ ~HasPredictionKey(net.body) => result = MissingKey(net.body)

\* C9: the temperature and vibration passed to get_prediction are those of
\* the chosen device's record with the greatest timestamp in the window
C9_InferenceUsesLatestRecord ==
    call # NoCall
    => \E i \in 1..Len(df) :
          /\ df[i].device_id = call.device_id
          /\ df[i].temperature = call.temp
          /\ df[i].vibration = call.vib
          /\ \A j \in 1..Len(df) :
                df[j].device_id = call.device_id
                => df[j].timestamp.n <= df[i].timestamp.n

----------------------------------------------------------------------------
(* SpecFilter: lines 71-79 on every rerun, the slider and the clock moving *)

MaxFilterItems == 3
MaxRefreshes == 1

FilterTimestamps == {5600, 16400, 19700, 20100}

FilterItems ==
    {[payload_kind |-> "map",
      payload |-> [GoodPayload EXCEPT !.timestamp = PyDec(10 * ts)],
      top |-> EmptyMap] : ts \in FilterTimestamps}

InitFilter ==
    /\ items \in SeqsUpTo(FilterItems, MaxFilterItems)
    /\ scanned = <<>>
    /\ scan_ok = TRUE
    /\ outcomes = <<>>
    /\ data = <<>>
    /\ FilterIdle
    /\ stage = "init"
    /\ df = <<>>
    /\ TrendIdle
    /\ InferIdle

\* data = fetch_fault_data() and the filter, at instant t with the slider at w
LoadAndFilter(t, w) ==
    LET records == fetch_fault_data(items, TRUE)
    IN  /\ scanned' = items
        /\ scan_ok' = TRUE
        /\ outcomes' = loop_outcomes(items)
        /\ data' = records
        /\ now' = t
        /\ time_window' = w
        /\ IF Len(records) = 0
           THEN stage' = "no_data" /\ df' = <<>>          \* st.stop()
           ELSE /\ stage' = "filtered"
                /\ df' = time_window_filter(to_datetime(records), t, w)
        /\ UNCHANGED <<items, trendVars, inferVars>>

\* the first run of the script
PageLoad ==
    /\ stage = "init"
    /\ LoadAndFilter(now, time_window)

\* st_autorefresh reruns the script 60 s later
AutoRefreshFilter ==
    /\ stage # "init"
    /\ now + RefreshSeconds <= Now0 + MaxRefreshes * RefreshSeconds
    /\ LoadAndFilter(now + RefreshSeconds, time_window)

\* the user moves the slider one step, which reruns the script
MoveSlider(w) ==
    /\ stage # "init"
    /\ w \in MinWindow..MaxWindow
    /\ LoadAndFilter(now, w)

NextFilter ==
    \/ PageLoad
    \/ AutoRefreshFilter
    \/ \E w \in {time_window - 1, time_window + 1} : MoveSlider(w)

SpecFilter == InitFilter /\ [][NextFilter]_vars

\* C7: a record is kept by the time-window filter iff now - timestamp <=
\* time_window * 60 (so records in the future are kept), for every slider
\* position 5..240; and one more minute of window never keeps fewer records
C7_WindowFilter ==
    stage = "filtered"
    => /\ time_window \in MinWindow..MaxWindow
       /\ df = SelectSeq([i \in 1..Len(data) |->
                            [data[i] EXCEPT
                                !.timestamp = PyDatetime(data[i].timestamp.n)]],
                         LAMBDA r : now - r.timestamp.n <= time_window * 60)
       /\ time_window < MaxWindow
          => Len(df) <= Len(time_window_filter(to_datetime(data), now,
                                               time_window + 1))

\* a record exactly on the cutoff is kept, a record in the future is kept,
\* and an older record is dropped
C7_Witness ==
    /\ stage = "filtered"
    /\ \E i \in 1..Len(data) :
          /\ now - data[i].timestamp.n = time_window * 60
          /\ \E j \in 1..Len(df) : df[j].timestamp.n = data[i].timestamp.n
    /\ \E j \in 1..Len(df) : df[j].timestamp.n > now
    /\ Len(df) < Len(data)

----------------------------------------------------------------------------
(* SpecTrend: lines 82-91 and 162-173 on every rerun, for a given window df *)

MaxTrendRows == 3

TrendRows ==
    {Row(DeviceA, ts, ts \div 10, 1, st) :
        ts \in {1000, 1100, 1800}, st \in {FAULT, OK}}
    \cup {Row(DeviceB, 1000, 215, 2, FAULT), Row(DeviceB, 1800, 550, 2, OK)}

InitTrend ==
    /\ items = <<>>
    /\ scanned = <<>>
    /\ scan_ok = TRUE
    /\ outcomes = <<>>
    /\ data = <<>>
    /\ FilterIdle
    /\ stage = "filtered"
    /\ df \in SeqsUpTo(TrendRows, MaxTrendRows)
    /\ TrendIdle
    /\ InferIdle

\* lines 82-91 and section 5 with the sidebar widgets holding choice and
\* selection
Render(choice, selection) ==
    LET unique_devices == unique(device_ids(df))
        device == selectbox(unique_devices, choice)
        rows == RowsOf(df, device)
    IN  /\ device_choice' = choice
        /\ chart_selection' = selection
        /\ selected_device' = device
        /\ filtered_df' = rows
        /\ IF Len(rows) = 0
           THEN /\ stage' = "no_device_data"                      \* st.stop()
                /\ chart' = NoChart
                /\ metrics' = NoMetrics
           ELSE /\ stage' = "rendered"
                /\ chart' = chart_over_time(rows, selection)
                /\ metrics' = summary_metrics(rows, time_window)
        /\ UNCHANGED <<fetchVars, filterVars, df, inferVars>>

\* the script runs with the widgets as they stand
AutoRefreshTrend == Render(device_choice, chart_selection)

\* the user picks one of the listed devices, which reruns the script
SelectDevice(d) ==
    /\ \E i \in 1..Len(df) : df[i].device_id = d
    /\ Render(d, chart_selection)

\* the user picks a chart, which reruns the script
SelectChart(c) == Render(device_choice, c)

NextTrend ==
    \/ AutoRefreshTrend
    \/ \E d \in {DeviceA, DeviceB} : SelectDevice(d)
    \/ \E c \in ChartOptions : SelectChart(c)

SpecTrend == InitTrend /\ [][NextTrend]_vars

FaultRows == {i \in 1..Len(filtered_df) : filtered_df[i].status = FAULT}

BucketKey(i) == (filtered_df[i].timestamp.n \div 900) * 900

RECURSIVE SumY(_)
SumY(rows) ==
    IF Len(rows) = 0 THEN 0
    ELSE rows[Len(rows)].y + SumY(SubSeq(rows, 1, Len(rows) - 1))

\* C8: the fault trend has exactly one entry per distinct
\* floor(timestamp/900)*900 over the FAULT records of the selected device's
\* window, each entry counts the FAULT records of its bucket, the counts sum
\* to the number of FAULT records, the entries ascend by bucket start, and
\* with no FAULT record there is no bucket and only a notice
C8_FaultTrendBuckets ==
    (stage = "rendered" /\ chart_selection = "Fault Trend")
    => /\ filtered_df = RowsOf(df, selected_device)
       /\ FaultRows = {} => chart.kind = "info" /\ chart.rows = <<>>
       /\ FaultRows # {} => chart.kind = "line_chart"
       /\ Len(chart.rows) = Cardinality({BucketKey(i) : i \in FaultRows})
       /\ {chart.rows[k].x.n : k \in 1..Len(chart.rows)}
            = {BucketKey(i) : i \in FaultRows}
       /\ \A k \in 1..Len(chart.rows) :
             chart.rows[k].y
               = Cardinality({i \in FaultRows : BucketKey(i) = chart.rows[k].x.n})
       /\ \A k \in 1..(Len(chart.rows) - 1) :
             chart.rows[k].x.n < chart.rows[k + 1].x.n
       /\ SumY(chart.rows) = Cardinality(FaultRows)

\* FAULT records at 1000, 1100 and 1800 s give the buckets {900: 2, 1800: 1}
C8_Witness ==
    /\ stage = "rendered"
    /\ chart_selection = "Fault Trend"
    /\ chart.rows = <<[x |-> PyDatetime(900), y |-> 2],
                      [x |-> PyDatetime(1800), y |-> 1]>>

----------------------------------------------------------------------------
(* SpecMetrics: lines 96-109 on every rerun, for a given device window *)

MaxCount == 23

\* a device window of a OK records followed by b OFFLINE ones, a minute apart
MetricsWindow(a, b) ==
    [i \in 1..(a + b) |->
        Row(DeviceA, 1000 + 60 * i, 215, 1, IF i <= a THEN OK ELSE OFFLINE)]

InitMetrics ==
    /\ items = <<>>
    /\ scanned = <<>>
    /\ scan_ok = TRUE
    /\ outcomes = <<>>
    /\ data = <<>>
    /\ FilterIdle
    /\ stage = "filtered"
    /\ df = <<>>
    /\ device_choice = None
    /\ chart_selection = "Temperature"
    /\ selected_device = DeviceA
    /\ \E a \in 0..MaxCount : \E b \in 0..(MaxCount - a) :
          a + b >= 1 /\ filtered_df = MetricsWindow(a, b)
    /\ chart = NoChart
    /\ metrics = NoMetrics
    /\ InferIdle

\* the metrics section with the slider at w; filtered_df is not empty here
ShowMetrics(w) ==
    /\ time_window' = w
    /\ stage' = "rendered"
    /\ metrics' = summary_metrics(filtered_df, w)
    /\ UNCHANGED <<fetchVars, now, df, device_choice, chart_selection,
                   selected_device, filtered_df, chart, inferVars>>

\* the script runs with the slider as it stands
AutoRefreshMetrics == ShowMetrics(time_window)

\* the user moves the slider one step, which reruns the script
MoveSliderMetrics(w) ==
    /\ w \in MinWindow..MaxWindow
    /\ ShowMetrics(w)

NextMetrics ==
    \/ AutoRefreshMetrics
    \/ \E w \in {time_window - 1, time_window + 1} : MoveSliderMetrics(w)

SpecMetrics == InitMetrics /\ [][NextMetrics]_vars

\* a / b rounded to the nearest integer, ties to even
RoundHalfEven(a, b) ==
    LET q == a \div b
        r == a % b
    IN  IF 2 * r > b \/ (2 * r = b /\ q % 2 = 1) THEN q + 1 ELSE q

\* C10: for every slider position 5..240 and a device window of n records of
\* any status, the displayed completeness is 100*n/w rounded to one decimal
\* place, and the division is never by zero
C10_CompletenessRounded ==
    stage = "rendered"
    => /\ time_window \in MinWindow..MaxWindow
       /\ metrics.expected_count = time_window
       /\ metrics.actual_count = Len(filtered_df)
       /\ metrics.completion_rate
            = PyFlt(RoundHalfEven(1000 * Len(filtered_df), time_window))

====
